---- MODULE Spec2Model ----
(***************************************************************************)
(* The video update pipeline: update-videos.js (first variant of           *)
(* src/unnamed/part_001), the bulk importer import-videos.js and the SQL   *)
(* string escaping both share; run-imports.sh, which applies the batch     *)
(* files; the workflow that starts update-videos.js (part_000); the        *)
(* callbacks that extract the listing items; insertNewVideos of the third  *)
(* variant of update-videos.js; and the scraper mine-videos.js.            *)
(*                                                                         *)
(* A video is a natural number; a larger number is a more recent video.    *)
(* The listing page shows the PageSize most recent videos, newest first.   *)
(* The platform_id of video v is v itself.                                 *)
(***************************************************************************)
EXTENDS Integers, Sequences, FiniteSets, TLC

\* ------------------------------------------------------------------ bounds
\* Videos the channel publishes during a behaviour.
MaxVid == 4
\* Items of listing page 1.
PageSize == 3
\* Runs of update-videos.js during a behaviour.
MaxRuns == 3

\* Workflow runs triggered during a behaviour.
MaxTriggers == 4

\* Items of a page given to the callbacks of page.$$eval.
MaxItems == 2

\* Records of scraped_videos.json.
MaxVideos == 10
\* Characters of a value given to escapeSqlString.
MaxStrLen == 4
\* Unique videos between two incremental saves: SAVE_INTERVAL of
\* mine-videos.js, 100 there, scaled to the size of the corpus above.
SAVE_INTERVAL == 4
\* Statements per batch file: BATCH_SIZE of import-videos.js, 500 there,
\* scaled to the size of the corpus above.
BATCH_SIZE == 3

\* Times are in seconds. The scheduler starts a run every twelve hours
\* (cron '0 8,20 * * *'); new Date() in run r is r intervals after the
\* start of the behaviour.
RunInterval == 43200
BaseTime(runNo) == runNo * RunInterval

\* new Date('2050-01-01T00:00:00Z') of mine-videos.js, in seconds after the
\* start of the behaviour, taken as 2026-01-01T00:00:00Z: 8766 days.
FixedBaseTime == 757382400

\* JavaScript null where a platform_id or a sort_order is expected: every
\* platform_id and every sort_order of the model is at least 1.
Null == 0

\* The exit status of a process that has not ended.
NotExited == 0 - 1

VARIABLES
    \* the source (rumble listing) ---------------------------------------
    published,        \* videos 1..published exist on the channel
    malformed,        \* videos whose listing item lacks a title
    \* the sink (D1 table videos) ----------------------------------------
    sink,             \* set of rows [id, platform_id, sort_order, run]
    uniqueSortOrder,  \* whether the table declares sort_order UNIQUE
    tempFile,         \* TRUE while new_videos.sql exists on disk
    \* one run of update-videos.js ---------------------------------------
    pc,               \* position of main
    run,              \* number of the current run
    latestKnownId,    \* result of fetchLatestPlatformId
    scrapeOutcome,    \* "none", "ok", "navFail", "launchFail"
    videosOnPage,     \* result of page.$$eval, after the filter
    newVideos,        \* the array scrapeLatestVideos returns
    warned,           \* the console.warn of line 164 was printed
    maxSortOrder,     \* result of fetchMaxSortOrder
    sqlStatements,    \* the INSERT statements of the run
    applyResult,      \* "none", "ok", "writeFail", "rejected", "transient"
    exitCode,         \* exit status of the process, NotExited while it runs
    successLogged,    \* "[START] Update process finished successfully."
    latestQuery,      \* "none", "ok", "failed": the query for the latest id
    maxQuery,         \* "none", "ok", "failed": the query for the maximum
    steps,            \* the steps the current run has completed, in order
    \* history, for the statements about two successive runs --------------
    sinkAtStart,      \* the sink when the current run started
    prevRun,          \* [page, outcome, apply] of the previous run
    \* import-videos.js ---------------------------------------------------
    videos,           \* the records of scraped_videos.json
    gpc,              \* position of generateImportSqlBatches
    loopIndex,        \* the loop variable i
    statementsInCurrentBatch,
    fileCounter,
    executionCommands,  \* the file numbers of the commands printed
    disk,             \* the batch files: file number -> statements
    writeFailed,      \* some fs.writeFile of a batch file threw
    \* run-imports.sh -----------------------------------------------------
    ipc,              \* "off", "loop", "exited"
    importQueue,      \* the file numbers the for loop still has to visit
    importApplied,    \* the file numbers wrangler executed with status 0
    importFailed,     \* the file number wrangler failed on, 0 if none
    shExit,           \* exit status of the script, NotExited while it runs
    \* the workflow (GitHub Actions) --------------------------------------
    wfRuns,           \* the workflow runs: [id, ref, event, state]
    wfCount,          \* the workflow runs triggered so far
    \* the callbacks of page.$$eval ---------------------------------------
    xpc,              \* "off", "page", "updated", "mined"
    rawItems,         \* the items of the page: [alt, href]
    extracted,        \* what the callback of update-videos.js returns
    mined,            \* what mine-videos.js writes for the same page
    \* insertNewVideos, third variant ------------------------------------
    tpc,              \* "off", "start", "queried", "built", "thrown",
                      \* "returned", "exited"
    tVideos,          \* the argument videos, in page order (newest first)
    tMaxOrder,        \* the constant maxOrder
    tStatements,      \* insertStatements
    tExit,            \* exit status of the process
    \* mine-videos.js ------------------------------------------------------
    mpc,              \* "off", "page", "final", "done"
    mPublished,       \* videos 1..mPublished exist on the channel
    scrapedVideos,    \* the unique videos scraped so far, in scrape order
    lastSaveCount,
    pageNumber,
    jsonFile,         \* the records of scraped_videos.json
    \* escapeSqlString --------------------------------------------------
    epc,              \* "input", "escaped", "parsed"
    value,            \* the argument
    literal,          \* the text returned
    parsed,           \* what a SQL parser reads back from the statement
    \* update-videos.js, second variant ----------------------------------
    vpc,              \* "off", "start", "scrape", "insert", "execute",
                      \* "returned", "thrown", "exited"
    vLinks,           \* the href of each item of the page, in page order
    latestVideoId,    \* result of getLatestVideoId
    vNewVideos,       \* the array scrapeVideos returns
    vStatements,      \* the INSERT statements
    vApply,           \* "none", "ok", "writeFail", "rejected", "transient"
    vExit,            \* exit status of the process
    \* two overlapping runs of update-videos.js ---------------------------
    procs,            \* the local variables of each of the two processes
    writes            \* number of d1 execute --file commands started so far

vars == << published, malformed, sink, uniqueSortOrder, tempFile, pc, run,
           latestKnownId, scrapeOutcome, videosOnPage, newVideos, warned,
           maxSortOrder, sqlStatements, applyResult, exitCode, successLogged,
           latestQuery, maxQuery, steps,
           sinkAtStart, prevRun, videos, gpc, loopIndex,
           statementsInCurrentBatch,
           fileCounter, executionCommands, disk, writeFailed, epc, value,
           literal, parsed, ipc, importQueue, importApplied, importFailed,
           shExit, wfRuns, wfCount, xpc, rawItems, extracted, mined,
           tpc, tVideos, tMaxOrder, tStatements, tExit, mpc, mPublished,
           scrapedVideos, lastSaveCount, pageNumber, jsonFile,
           vpc, vLinks, latestVideoId, vNewVideos, vStatements, vApply, vExit,
           procs, writes >>

pipelineVars == << published, malformed, sink, uniqueSortOrder, tempFile, pc,
                   run, latestKnownId, scrapeOutcome, videosOnPage, newVideos,
                   warned, maxSortOrder, sqlStatements, applyResult, exitCode,
                   successLogged, latestQuery, maxQuery, steps, sinkAtStart,
                   prevRun >>
batchVars == << videos, gpc, loopIndex, statementsInCurrentBatch, fileCounter,
                executionCommands, disk, writeFailed >>
escVars == << epc, value, literal, parsed >>
importVars == << ipc, importQueue, importApplied, importFailed, shExit >>
workflowVars == << wfRuns, wfCount >>
extractVars == << xpc, rawItems, extracted, mined >>
thirdVars == << tpc, tVideos, tMaxOrder, tStatements, tExit >>
mineVars == << mpc, mPublished, scrapedVideos, lastSaveCount, pageNumber,
               jsonFile >>

secondVars == << vpc, vLinks, latestVideoId, vNewVideos, vStatements, vApply, vExit >>
overlapVars == << procs, writes >>
sourceVars == << published, malformed >>
runVars == << latestKnownId, scrapeOutcome, videosOnPage, newVideos, warned,
              maxSortOrder, sqlStatements, applyResult, exitCode,
              successLogged, latestQuery, maxQuery, steps >>

\* What each part of the module leaves alone.
outsidePipeline == << batchVars, escVars, importVars, workflowVars,
                      extractVars, thirdVars, mineVars,
    secondVars,
    overlapVars >>
outsideBatch == << pipelineVars, escVars, importVars, workflowVars,
                   extractVars, thirdVars, mineVars,
    secondVars,
    overlapVars >>
outsideEsc == << pipelineVars, batchVars, importVars, workflowVars,
                 extractVars, thirdVars, mineVars,
    secondVars,
    overlapVars >>
outsideImport == << sourceVars, uniqueSortOrder, tempFile, pc, run, runVars,
                    sinkAtStart, prevRun, batchVars, escVars, workflowVars,
                    extractVars, thirdVars, mineVars,
    secondVars,
    overlapVars >>
outsideWorkflow == << pipelineVars, batchVars, escVars, importVars,
                      extractVars, thirdVars, mineVars,
    secondVars,
    overlapVars >>
outsideExtract == << pipelineVars, batchVars, escVars, importVars,
                     workflowVars, thirdVars, mineVars,
    secondVars,
    overlapVars >>
outsideThird == << sourceVars, uniqueSortOrder, tempFile, pc, run, runVars,
                   sinkAtStart, prevRun, batchVars, escVars, importVars,
                   workflowVars, extractVars, mineVars,
    secondVars,
    overlapVars >>
outsideMine == << pipelineVars, batchVars, escVars, importVars, workflowVars,
                  extractVars, thirdVars,
    secondVars,
    overlapVars >>
outsideSecond == << sourceVars, uniqueSortOrder, tempFile, pc, run, runVars,
                    sinkAtStart, prevRun, batchVars, escVars, importVars,
                    workflowVars, extractVars, thirdVars, mineVars,
    overlapVars >>
outsideOverlap == << tempFile, pc, run, runVars, sinkAtStart, prevRun,
                     batchVars, escVars, importVars, workflowVars,
                     extractVars, thirdVars, mineVars, secondVars >>

\* ----------------------------------------------------------------- helpers
Min(a, b) == IF a < b THEN a ELSE b

SetMax(S) == CHOOSE x \in S : \A y \in S : y <= x

Reverse(s) == [i \in 1..Len(s) |-> s[Len(s) - i + 1]]

\* The listing page: the PageSize most recent videos, newest first.
ListingPage ==
    [i \in 1..Min(PageSize, published) |-> published - i + 1]

\* The callback of page.$$eval: an item with title, link and platform_id
\* becomes a video object, any other item becomes null and is filtered out.
ExtractVideo(v) == [platform_id |-> v, platform |-> "rumble",
                    source_type |-> "warroom"]

ExtractVideos(items) ==
    LET kept == SelectSeq(items, LAMBDA v : v \notin malformed)
    IN  [i \in 1..Len(kept) |-> ExtractVideo(kept[i])]

\* The loop with the push before the test: the latest known video itself
\* is pushed before the loop stops.
RECURSIVE ScanPagePushFirst(_, _, _, _)
ScanPagePushFirst(page, latest, i, acc) ==
    IF i > Len(page) THEN acc
    ELSE IF page[i].platform_id = latest THEN Append(acc, page[i])
    ELSE ScanPagePushFirst(page, latest, i + 1, Append(acc, page[i]))

\* The for loop of scrapeLatestVideos: push until the first video whose
\* platform_id is the latest known one.
RECURSIVE ScanPage(_, _, _, _)
ScanPage(page, latest, i, acc) ==
    IF i > Len(page) THEN acc
    ELSE IF page[i].platform_id = latest THEN acc
    ELSE ScanPage(page, latest, i + 1, Append(acc, page[i]))

\* The warning without the test for a null boundary.
AmbiguousWarningAlways(nNew, nPage, latest) ==
    nNew = nPage

\* The condition of the warning after the loop.
AmbiguousWarning(nNew, nPage, latest) ==
    nNew = nPage /\ latest # Null

\* The id column of an INSERT.
MakeId(platform_id) == << "rumble", platform_id >>

\* The forEach of insertNewVideos over the reversed array (index is 0-based):
\* sort_order is maxSortOrder + index + 1 and the timestamp is baseTime less
\* index * 1000 milliseconds.
BuildStatements(reversed, maxOrder, baseTime) ==
    [k \in 1..Len(reversed) |->
        [id           |-> MakeId(reversed[k].platform_id),
         platform_id  |-> reversed[k].platform_id,
         sort_order   |-> maxOrder + (k - 1) + 1,
         publish_date |-> baseTime - (k - 1)]]

\* insertNewVideos without the await: the statements are built before the
\* query for the maximum has answered.
PrepareStepsNoAwait == << "assign", "maxQuery" >>

\* The steps of insertNewVideos before the try block: fetchMaxSortOrder is
\* awaited, then the forEach assigns each sort_order.
PrepareSteps == << "maxQuery", "assign" >>

\* ------------------------------------------------------------------- sink
\* The query with ORDER BY sort_order ASC: a row of minimal sort_order.
OldestRows(table) ==
    {r \in table : \A q \in table : r.sort_order <= q.sort_order}

\* SELECT platform_id ... ORDER BY sort_order DESC LIMIT 1: the rows a
\* query may return (any row of maximal sort_order).
LatestRows(table) ==
    {r \in table : \A q \in table : q.sort_order <= r.sort_order}

\* SELECT MAX(sort_order): null on an empty table.
MaxOrderOf(table) ==
    IF table = {} THEN Null ELSE SetMax({r.sort_order : r \in table})

\* A plain INSERT violates a constraint of the table.
Conflicts(table, stmt, unique) ==
    \/ \E r \in table : r.id = stmt.id
    \/ unique /\ \E r \in table : r.sort_order = stmt.sort_order

\* wrangler d1 execute --file: the statements run in file order and the
\* first failing statement ends the execution. stopAt > 0 is a failure of
\* the service at that statement.
RECURSIVE ExecuteFile(_, _, _, _, _, _)
ExecuteFile(table, stmts, i, stopAt, unique, runNo) ==
    IF i > Len(stmts) THEN [table |-> table, result |-> "ok"]
    ELSE IF i = stopAt THEN [table |-> table, result |-> "transient"]
    ELSE IF Conflicts(table, stmts[i], unique)
         THEN [table |-> table, result |-> "rejected"]
    ELSE ExecuteFile(table \cup {[id           |-> stmts[i].id,
                                  platform_id  |-> stmts[i].platform_id,
                                  sort_order   |-> stmts[i].sort_order,
                                  publish_date |-> stmts[i].publish_date,
                                  run          |-> runNo]},
                     stmts, i + 1, stopAt, unique, runNo)

\* -------------------------------------------------------------------- Init
NoRun == [page |-> << >>, outcome |-> "none", apply |-> "none"]

\* No run of update-videos.js has started.
NoRunYet ==
    /\ published = 0
    /\ malformed = {}
    /\ tempFile = FALSE
    /\ pc = "idle"
    /\ run = 0
    /\ latestKnownId = Null
    /\ scrapeOutcome = "none"
    /\ videosOnPage = << >>
    /\ newVideos = << >>
    /\ warned = FALSE
    /\ maxSortOrder = 0
    /\ sqlStatements = << >>
    /\ applyResult = "none"
    /\ exitCode = NotExited
    /\ successLogged = FALSE
    /\ latestQuery = "none"
    /\ maxQuery = "none"
    /\ steps = << >>
    /\ sinkAtStart = {}
    /\ prevRun = NoRun

PipelineInit ==
    /\ NoRunYet
    /\ sink = {}
    /\ uniqueSortOrder \in BOOLEAN

\* update-videos.js is not running.
PipelineOff ==
    /\ PipelineInit
    /\ uniqueSortOrder = FALSE

\* import-videos.js is not running.
BatchOff ==
    /\ videos = << >>
    /\ gpc = "off"
    /\ loopIndex = 0
    /\ statementsInCurrentBatch = << >>
    /\ fileCounter = 1
    /\ executionCommands = << >>
    /\ disk = << >>
    /\ writeFailed = FALSE

\* No call of escapeSqlString.
EscOff ==
    /\ epc = "off"
    /\ value = [kind |-> "null", chars |-> << >>]
    /\ literal = << >>
    /\ parsed = [kind |-> "none", chars |-> << >>, rest |-> << >>]

\* The second variant of update-videos.js is not running.
SecondOff ==
    /\ vpc = "off"
    /\ vLinks = << >>
    /\ latestVideoId = << "null" >>
    /\ vNewVideos = << >>
    /\ vStatements = << >>
    /\ vApply = "none"
    /\ vExit = NotExited

\* No two runs of update-videos.js overlap.
OverlapOff ==
    /\ procs = << >>
    /\ writes = 0

\* mine-videos.js is not running.
MineOff ==
    /\ mpc = "off"
    /\ mPublished = 0
    /\ scrapedVideos = << >>
    /\ lastSaveCount = 0
    /\ pageNumber = 1
    /\ jsonFile = << >>

\* The third variant of update-videos.js is not running.
ThirdOff ==
    /\ tpc = "off"
    /\ tVideos = << >>
    /\ tMaxOrder = [type |-> "undefined"]
    /\ tStatements = << >>
    /\ tExit = NotExited

\* No page is being extracted.
ExtractOff ==
    /\ xpc = "off"
    /\ rawItems = << >>
    /\ extracted = << >>
    /\ mined = << >>

\* No workflow run was triggered.
WorkflowOff ==
    /\ wfRuns = {}
    /\ wfCount = 0

\* run-imports.sh is not running.
ImportOff ==
    /\ ipc = "off"
    /\ importQueue = << >>
    /\ importApplied = << >>
    /\ importFailed = 0
    /\ shExit = NotExited

Init ==
    /\ PipelineInit
    /\ BatchOff
    /\ EscOff
    /\ ImportOff
    /\ OverlapOff
    /\ SecondOff
    /\ MineOff
    /\ ThirdOff
    /\ ExtractOff
    /\ WorkflowOff

\* ----------------------------------------------------------------- source
\* The channel publishes one more video. Between two runs only: a video
\* published while a run is between its steps is seen either by this run's
\* scrape or by the next run, as one published before or after the run.
Publish ==
    /\ pc = "idle"
    /\ published < MaxVid
    /\ published' = published + 1
    /\ \E bad \in BOOLEAN :
          malformed' = IF bad THEN malformed \cup {published + 1}
                       ELSE malformed
    /\ UNCHANGED << outsidePipeline, sink, uniqueSortOrder, tempFile, pc, run, runVars,
                    sinkAtStart, prevRun >>

\* ------------------------------------------------------------------- main
\* node update-videos.js starts.
StartRun ==
    /\ pc = "idle"
    /\ run < MaxRuns
    /\ run' = run + 1
    /\ pc' = "fetchLatest"
    /\ prevRun' = IF run = 0 THEN NoRun
                  ELSE [page |-> videosOnPage, outcome |-> scrapeOutcome,
                        apply |-> applyResult]
    /\ sinkAtStart' = sink
    /\ latestKnownId' = Null
    /\ scrapeOutcome' = "none"
    /\ videosOnPage' = << >>
    /\ newVideos' = << >>
    /\ warned' = FALSE
    /\ maxSortOrder' = 0
    /\ sqlStatements' = << >>
    /\ applyResult' = "none"
    /\ exitCode' = NotExited
    /\ successLogged' = FALSE
    /\ latestQuery' = "none"
    /\ maxQuery' = "none"
    /\ steps' = << >>
    /\ UNCHANGED << outsidePipeline, sourceVars, sink, uniqueSortOrder, tempFile >>

\* fetchLatestPlatformId: the platform_id of the row of largest sort_order;
\* null on an empty table and when the command or JSON.parse throws.
FetchLatestPlatformId ==
    /\ pc = "fetchLatest"
    /\ \E queryOk \in BOOLEAN :
          /\ IF queryOk /\ sink # {}
             THEN \E r \in LatestRows(sink) : latestKnownId' = r.platform_id
             ELSE latestKnownId' = Null
          /\ latestQuery' = IF queryOk THEN "ok" ELSE "failed"
    /\ steps' = Append(steps, "latestQuery")
    /\ pc' = "scrape"
    /\ UNCHANGED << outsidePipeline, sourceVars, sink, uniqueSortOrder, tempFile, run,
                    scrapeOutcome, videosOnPage, newVideos, warned,
                    maxSortOrder, sqlStatements, applyResult, exitCode,
                    successLogged, maxQuery, sinkAtStart, prevRun >>

\* scrapeLatestVideos. puppeteer.launch is outside the try: its failure
\* reaches main. page.goto and waitForSelector are inside: their failure is
\* logged and the empty array is returned. waitForSelector times out on a
\* page without any item.
ScrapeLatestVideos ==
    /\ pc = "scrape"
    /\ \E outcome \in {"ok", "navFail", "launchFail"} :
          /\ outcome = "ok" => published > 0
          /\ scrapeOutcome' = outcome
          /\ IF outcome = "ok"
             THEN LET page == ExtractVideos(ListingPage)
                      found == ScanPage(page, latestKnownId, 1, << >>)
                  IN  /\ videosOnPage' = page
                      /\ newVideos' = found
                      /\ warned' = AmbiguousWarning(Len(found), Len(page),
                                                    latestKnownId)
             ELSE /\ videosOnPage' = << >>
                  /\ newVideos' = << >>
                  /\ warned' = FALSE
          /\ steps' = IF outcome = "ok" THEN Append(steps, "diff") ELSE steps
          /\ pc' = IF outcome = "launchFail" THEN "failed" ELSE "insert"
    /\ UNCHANGED << outsidePipeline, sourceVars, sink, uniqueSortOrder, tempFile, run,
                    latestKnownId, maxSortOrder, sqlStatements, applyResult,
                    exitCode, successLogged, latestQuery, maxQuery,
                    sinkAtStart, prevRun >>

\* insertNewVideos up to the statements: the early return on an empty
\* array, fetchMaxSortOrder (0 on an empty table and on a failed query),
\* the reversal in place and the forEach.
InsertNewVideosPrepare ==
    /\ pc = "insert"
    /\ IF Len(newVideos) = 0
       THEN /\ pc' = "finish"
            /\ UNCHANGED << newVideos, maxSortOrder, sqlStatements,
                            maxQuery, steps >>
       ELSE \E queryOk \in BOOLEAN :
               LET maxOrder == IF queryOk /\ MaxOrderOf(sink) # Null
                               THEN MaxOrderOf(sink) ELSE 0
                   reversed == Reverse(newVideos)
               IN  /\ maxSortOrder' = maxOrder
                   /\ maxQuery' = IF queryOk THEN "ok" ELSE "failed"
                   /\ newVideos' = reversed
                   /\ sqlStatements' =
                         BuildStatements(reversed, maxOrder, BaseTime(run))
                   /\ steps' = steps \o PrepareSteps
                   /\ pc' = "execute"
    /\ UNCHANGED << outsidePipeline, sourceVars, sink, uniqueSortOrder, tempFile, run,
                    latestKnownId, scrapeOutcome, videosOnPage, warned,
                    applyResult, exitCode, successLogged, latestQuery,
                    sinkAtStart, prevRun >>

\* insertNewVideos, the try block: write new_videos.sql, execute it, delete
\* it. Every error is caught and logged. Whether the sink keeps the rows of
\* the statements before a failing one is the sink's choice.
InsertNewVideosExecute ==
    /\ pc = "execute"
    /\ \E writeOk \in BOOLEAN, stopAt \in 0..Len(sqlStatements),
          atomic \in BOOLEAN, unlinkOk \in BOOLEAN :
          IF ~writeOk
          THEN /\ applyResult' = "writeFail"
               /\ UNCHANGED << sink, tempFile, steps >>
          ELSE LET out == ExecuteFile(sink, sqlStatements, 1, stopAt,
                                      uniqueSortOrder, run)
               IN  /\ applyResult' = out.result
                   /\ sink' = IF out.result # "ok" /\ atomic THEN sink
                              ELSE out.table
                   /\ tempFile' = ~(out.result = "ok" /\ unlinkOk)
                   /\ steps' = Append(steps, "apply")
    /\ pc' = "finish"
    /\ UNCHANGED << outsidePipeline, sourceVars, uniqueSortOrder, run, latestKnownId,
                    scrapeOutcome, videosOnPage, newVideos, warned,
                    maxSortOrder, sqlStatements, exitCode, successLogged,
                    latestQuery, maxQuery, sinkAtStart, prevRun >>

\* main after insertNewVideos returned: the success line, exit status 0.
Finish ==
    /\ pc = "finish"
    /\ successLogged' = TRUE
    /\ exitCode' = 0
    /\ pc' = "done"
    /\ UNCHANGED << outsidePipeline, sourceVars, sink, uniqueSortOrder, tempFile, run,
                    latestKnownId, scrapeOutcome, videosOnPage, newVideos,
                    warned, maxSortOrder, sqlStatements, applyResult,
                    latestQuery, maxQuery, steps, sinkAtStart, prevRun >>

\* main, the catch: process.exit(1).
Fail ==
    /\ pc = "failed"
    /\ exitCode' = 1
    /\ pc' = "done"
    /\ UNCHANGED << outsidePipeline, sourceVars, sink, uniqueSortOrder, tempFile, run,
                    latestKnownId, scrapeOutcome, videosOnPage, newVideos,
                    warned, maxSortOrder, sqlStatements, applyResult,
                    successLogged, latestQuery, maxQuery, steps, sinkAtStart,
                    prevRun >>

\* The process has ended; the scheduler may start the next one.
Exit ==
    /\ pc = "done"
    /\ pc' = "idle"
    /\ UNCHANGED << outsidePipeline, sourceVars, sink, uniqueSortOrder, tempFile, run, runVars,
                    sinkAtStart, prevRun >>

Next ==
    \/ Publish
    \/ StartRun
    \/ FetchLatestPlatformId
    \/ ScrapeLatestVideos
    \/ InsertNewVideosPrepare
    \/ InsertNewVideosExecute
    \/ Finish
    \/ Fail
    \/ Exit

Spec == Init /\ [][Next]_vars

\* ------------------------------------------------------- import-videos.js
\* processAndSaveData numbering from the end of the array: the last video
\* scraped gets sort_order 1 and the base time.
ProcessAndSaveDataFromEnd(allScrapedVideos) ==
    [k \in 1..Len(allScrapedVideos) |->
        [id           |-> MakeId(allScrapedVideos[k]),
         platform_id  |-> allScrapedVideos[k],
         sort_order   |-> Len(allScrapedVideos) - (k - 1),
         publish_date |-> FixedBaseTime - (Len(allScrapedVideos) - k)]]

\* processAndSaveData of mine-videos.js over the scraped videos in scrape
\* order: the video at index i gets sort_order i + 1 and the fixed base
\* time less i * 1000 milliseconds.
ProcessAndSaveData(allScrapedVideos) ==
    [k \in 1..Len(allScrapedVideos) |->
        [id           |-> MakeId(allScrapedVideos[k]),
         platform_id  |-> allScrapedVideos[k],
         sort_order   |-> (k - 1) + 1,
         publish_date |-> FixedBaseTime - (k - 1)]]

\* What mine-videos.js leaves in scraped_videos.json for a scrape of n
\* videos, newest first: position k gets sort_order k.
BulkCorpus(n) == ProcessAndSaveData([k \in 1..n |-> n - k + 1])

\* The INSERT statement of one record.
InsertStatement(video) ==
    [id           |-> video.id,
     platform_id  |-> video.platform_id,
     sort_order   |-> video.sort_order,
     publish_date |-> video.publish_date]

\* The test with > in place of ===: a batch is written one statement late.
BatchReadyLate(len, index, count) ==
    len > BATCH_SIZE \/ index = count - 1

\* "the batch is full or it's the last video" (index is 0-based).
BatchReady(len, index, count) ==
    len = BATCH_SIZE \/ index = count - 1

\* node import-videos.js starts with some scraped_videos.json on disk.
BatchInit ==
    /\ PipelineOff
    /\ EscOff
    /\ ImportOff
    /\ OverlapOff
    /\ SecondOff
    /\ MineOff
    /\ ThirdOff
    /\ ExtractOff
    /\ WorkflowOff
    /\ videos \in {BulkCorpus(n) : n \in 0..MaxVideos}
    /\ gpc = "read"
    /\ loopIndex = 0
    /\ statementsInCurrentBatch = << >>
    /\ fileCounter = 1
    /\ executionCommands = << >>
    /\ disk = << >>
    /\ writeFailed = FALSE

\* Reading and parsing the JSON file; return on an error and on an empty
\* array.
ReadInput ==
    /\ gpc = "read"
    /\ \E readOk \in BOOLEAN :
          gpc' = IF readOk /\ Len(videos) # 0 THEN "loop" ELSE "returned"
    /\ UNCHANGED << outsideBatch, videos, loopIndex,
                    statementsInCurrentBatch, fileCounter, executionCommands,
                    disk, writeFailed >>

\* One iteration of the for loop: push the statement, and when the batch
\* is ready write the file. When fs.writeFile throws, the error is logged
\* and the loop goes on with the batch and the counter as they are.
LoopIteration ==
    /\ gpc = "loop"
    /\ loopIndex < Len(videos)
    /\ LET pushed == Append(statementsInCurrentBatch,
                            InsertStatement(videos[loopIndex + 1]))
       IN  IF BatchReady(Len(pushed), loopIndex, Len(videos))
           THEN \E writeOk \in BOOLEAN :
                   IF writeOk
                   THEN /\ disk' = (fileCounter :> pushed) @@ disk
                        /\ executionCommands' =
                              Append(executionCommands, fileCounter)
                        /\ statementsInCurrentBatch' = << >>
                        /\ fileCounter' = fileCounter + 1
                        /\ UNCHANGED writeFailed
                   ELSE /\ statementsInCurrentBatch' = pushed
                        /\ writeFailed' = TRUE
                        /\ UNCHANGED << disk, executionCommands, fileCounter >>
           ELSE /\ statementsInCurrentBatch' = pushed
                /\ UNCHANGED << disk, executionCommands, fileCounter,
                                writeFailed >>
    /\ loopIndex' = loopIndex + 1
    /\ UNCHANGED << outsideBatch, videos, gpc >>

\* The loop has ended: "Finished generating SQL batch files." and the list
\* of commands.
LoopEnd ==
    /\ gpc = "loop"
    /\ loopIndex = Len(videos)
    /\ gpc' = "finished"
    /\ UNCHANGED << outsideBatch, videos, loopIndex,
                    statementsInCurrentBatch, fileCounter, executionCommands,
                    disk, writeFailed >>

BatchNext ==
    \/ ReadInput
    \/ LoopIteration
    \/ LoopEnd

SpecBatch == BatchInit /\ [][BatchNext]_vars

\* --------------------------------------------------------- run-imports.sh
\* The script without set -e and without the test of $?: the loop goes on
\* after a failed wrangler command.
AfterWranglerIgnoreStatus(result) == "loop"

\* set -e: a wrangler command that ends with a non-zero status ends the
\* script at once; after status 0 the loop goes on.
AfterWrangler(result) == IF result = "ok" THEN "loop" ELSE "exited"

\* ls -v import_batch_*.sql: the file numbers in ascending numeric order.
RECURSIVE LsV(_)
LsV(numbers) ==
    IF numbers = {} THEN << >>
    ELSE LET least == CHOOSE x \in numbers : \A y \in numbers : x <= y
         IN  << least >> \o LsV(numbers \ {least})

\* The script starts after import-videos.js has ended; the word list of the
\* for loop is expanded once.
StartImports ==
    /\ gpc \in {"returned", "finished"}
    /\ ipc = "off"
    /\ importQueue' = LsV(DOMAIN disk)
    /\ ipc' = "loop"
    /\ UNCHANGED << outsideImport, sink, importApplied, importFailed, shExit >>

\* One iteration: wrangler d1 execute --remote --file of the next file. The
\* rows of a failing file before the failing statement stay or not, as the
\* service chooses. The script ends with the status of the failed command.
ApplyBatch ==
    /\ ipc = "loop"
    /\ importQueue # << >>
    /\ LET file == Head(importQueue)
       IN  \E stopAt \in 0..Len(disk[file]), atomic \in BOOLEAN :
              LET out == ExecuteFile(sink, disk[file], 1, stopAt,
                                     uniqueSortOrder, 0)
              IN  /\ sink' = IF out.result # "ok" /\ atomic THEN sink
                             ELSE out.table
                  /\ importApplied' = IF out.result = "ok"
                                      THEN Append(importApplied, file)
                                      ELSE importApplied
                  /\ importFailed' = IF out.result # "ok" /\ importFailed = 0
                                     THEN file ELSE importFailed
                  /\ ipc' = AfterWrangler(out.result)
                  /\ shExit' = IF AfterWrangler(out.result) = "exited"
                               THEN 1 ELSE NotExited
    /\ importQueue' = Tail(importQueue)
    /\ UNCHANGED outsideImport

\* After the loop: "All import batches executed successfully!", exit 0.
ImportsDone ==
    /\ ipc = "loop"
    /\ importQueue = << >>
    /\ shExit' = 0
    /\ ipc' = "exited"
    /\ UNCHANGED << outsideImport, sink, importQueue, importApplied,
                    importFailed >>

ImportNext ==
    \/ StartImports
    \/ ApplyBatch
    \/ ImportsDone

\* import-videos.js, then run-imports.sh.
SpecImport == BatchInit /\ [][BatchNext \/ ImportNext]_vars

\* node import-videos.js is started again, over a scraped_videos.json with
\* fewer videos, before run-imports.sh: every variable of
\* generateImportSqlBatches starts afresh, fileCounter at 1, and the files
\* on disk stay as no code deletes them.
Regenerate ==
    /\ gpc \in {"returned", "finished"}
    /\ ipc = "off"
    /\ \E n \in 0..MaxVideos :
          /\ n < Len(videos)
          /\ videos' = BulkCorpus(n)
    /\ gpc' = "read"
    /\ loopIndex' = 0
    /\ statementsInCurrentBatch' = << >>
    /\ fileCounter' = 1
    /\ executionCommands' = << >>
    /\ writeFailed' = FALSE
    /\ UNCHANGED << outsideBatch, disk >>

\* import-videos.js once or more, over fewer videos each time, then
\* run-imports.sh.
SpecRegenerate ==
    BatchInit /\ [][BatchNext \/ Regenerate \/ ImportNext]_vars

\* ------------------------------------- the bulk import, then an update run
\* scraped_videos.json holds the whole channel, newest first, as
\* mine-videos.js wrote it; the sink is empty and no script has run.
BulkThenUpdateInit ==
    /\ EscOff
    /\ ImportOff
    /\ OverlapOff
    /\ SecondOff
    /\ MineOff
    /\ ThirdOff
    /\ ExtractOff
    /\ WorkflowOff
    /\ videos \in {BulkCorpus(n) : n \in 1..MaxVid}
    /\ gpc = "read"
    /\ loopIndex = 0
    /\ statementsInCurrentBatch = << >>
    /\ fileCounter = 1
    /\ executionCommands = << >>
    /\ disk = << >>
    /\ writeFailed = FALSE
    /\ published = Len(videos)
    /\ malformed = {}
    /\ tempFile = FALSE
    /\ pc = "idle"
    /\ run = 0
    /\ latestKnownId = Null
    /\ scrapeOutcome = "none"
    /\ videosOnPage = << >>
    /\ newVideos = << >>
    /\ warned = FALSE
    /\ maxSortOrder = 0
    /\ sqlStatements = << >>
    /\ applyResult = "none"
    /\ exitCode = NotExited
    /\ successLogged = FALSE
    /\ latestQuery = "none"
    /\ maxQuery = "none"
    /\ steps = << >>
    /\ sinkAtStart = {}
    /\ prevRun = NoRun
    /\ sink = {}
    /\ uniqueSortOrder \in BOOLEAN

\* update-videos.js and the channel, once run-imports.sh has ended with
\* status 0: the channel may publish, and the first scheduled run of
\* update-videos.js takes its steps.
UpdateAfterImport ==
    /\ shExit = 0
    /\ Next
    /\ run' <= 1

\* import-videos.js, run-imports.sh, then the first update run.
SpecBulkThenUpdate ==
    BulkThenUpdateInit /\ [][BatchNext \/ ImportNext \/ UpdateAfterImport]_vars

\* -------------------------------------------------- the $$eval callbacks
\* An attribute is a sequence of characters; Absent is null (no element, or
\* no attribute), told apart from every string.
Absent == << "null" >>

Truthy(text) == text # Absent /\ text # << >>

\* The characters [a-z0-9] of the hrefs below.
AlphaNum == {"a", "b"}

\* The alt attributes of img.thumbnail__image.
Alts == {Absent, << >>, << "t" >>}

\* The href attributes of a.videostream__link.link: /a-b.h, /a.h, /a/,
\* /-a and /b-a.
Hrefs == {Absent,
          << "/", "a", "-", "b", ".", "h" >>,
          << "/", "a", ".", "h" >>,
          << "/", "a", "/" >>,
          << "/", "-", "a" >>,
          << "/", "b", "-", "a" >>}

RawItems == [alt : Alts, href : Hrefs]

\* The length of the longest run of [a-z0-9] that starts at position i.
RECURSIVE RunLength(_, _)
RunLength(text, i) ==
    IF i > Len(text) \/ text[i] \notin AlphaNum THEN 0
    ELSE 1 + RunLength(text, i + 1)

\* The group of /([a-z0-9]+)-/ when the match starts right after the "/"
\* at position i, Absent when there is no match there.
GroupAfterSlash(text, i) ==
    LET n == RunLength(text, i + 1)
    IN  IF /\ i <= Len(text) /\ text[i] = "/"
           /\ n >= 1
           /\ i + n + 1 <= Len(text) /\ text[i + n + 1] = "-"
        THEN SubSeq(text, i + 1, i + n)
        ELSE Absent

\* link.split('/').pop().split('.')[0] for the link https://rumble.com
\* followed by an href that starts with "/".
LastSegmentStem(href) ==
    LET slashes == {i \in 1..Len(href) : href[i] = "/"}
        last == CHOOSE i \in slashes : \A j \in slashes : j <= i
        segment == SubSeq(href, last + 1, Len(href))
        dots == {i \in 1..Len(segment) : segment[i] = "."}
    IN  IF dots = {} THEN segment
        ELSE SubSeq(segment, 1,
                    (CHOOSE i \in dots : \A j \in dots : i <= j) - 1)

\* update-videos.js: link.match(/rumble\.com\/([a-z0-9]+)-/), else the stem
\* of the last segment; null without a link.
UpdatePlatformId(href) ==
    IF ~Truthy(href) THEN Absent
    ELSE IF GroupAfterSlash(href, 1) # Absent THEN GroupAfterSlash(href, 1)
    ELSE LastSegmentStem(href)

\* mine-videos.js: video.link.match(/\/([a-z0-9]+)-/) takes the first "/"
\* of the link that a match starts at (none within https://rumble.com),
\* else the stem of the last segment.
MinePlatformId(href) ==
    LET starts == {i \in 1..Len(href) : GroupAfterSlash(href, i) # Absent}
    IN  IF starts # {}
        THEN GroupAfterSlash(href,
                             CHOOSE i \in starts : \A j \in starts : i <= j)
        ELSE LastSegmentStem(href)

\* update-videos.js: if (title && link && platform_id).
UpdateKeeps(item) ==
    /\ Truthy(item.alt)
    /\ Truthy(item.href)
    /\ Truthy(UpdatePlatformId(item.href))

\* mine-videos.js: if (title && videoPath && link).
MineKeeps(item) ==
    Truthy(item.alt) /\ Truthy(item.href)

\* items.map(...).filter(video => video !== null) of update-videos.js.
UpdateCallback(items) ==
    LET kept == SelectSeq(items, UpdateKeeps)
    IN  [i \in 1..Len(kept) |->
            [title       |-> kept[i].alt,
             link        |-> kept[i].href,
             platform_id |-> UpdatePlatformId(kept[i].href)]]

\* The callback of mine-videos.js, then the map of processAndSaveData.
MineCallback(items) ==
    LET kept == SelectSeq(items, MineKeeps)
    IN  [i \in 1..Len(kept) |->
            [title       |-> kept[i].alt,
             link        |-> kept[i].href,
             platform_id |-> MinePlatformId(kept[i].href)]]

ExtractInit ==
    /\ PipelineOff
    /\ BatchOff
    /\ EscOff
    /\ ImportOff
    /\ OverlapOff
    /\ SecondOff
    /\ MineOff
    /\ ThirdOff
    /\ WorkflowOff
    /\ xpc = "page"
    /\ rawItems \in UNION {[1..n -> RawItems] : n \in 0..MaxItems}
    /\ extracted = << >>
    /\ mined = << >>

\* update-videos.js extracts the page.
ExtractForUpdate ==
    /\ xpc = "page"
    /\ extracted' = UpdateCallback(rawItems)
    /\ xpc' = "updated"
    /\ UNCHANGED << outsideExtract, rawItems, mined >>

\* mine-videos.js extracts the same page and prepares its records.
ExtractForMine ==
    /\ xpc = "updated"
    /\ mined' = MineCallback(rawItems)
    /\ xpc' = "mined"
    /\ UNCHANGED << outsideExtract, rawItems, extracted >>

ExtractNext ==
    \/ ExtractForUpdate
    \/ ExtractForMine

SpecExtract == ExtractInit /\ [][ExtractNext]_vars

\* ------------------------------------- insertNewVideos, the third variant
\* JavaScript values.
JsNumber(n) == [type |-> "number", n |-> n]
JsUndefined == [type |-> "undefined"]
JsNull == [type |-> "null"]
JsNaN == [type |-> "NaN"]

\* ToNumber: null is 0, undefined is NaN.
ToNumber(v) ==
    IF v.type = "number" THEN v
    ELSE IF v.type = "null" THEN JsNumber(0)
    ELSE JsNaN

JsPlus(a, b) ==
    IF ToNumber(a) = JsNaN \/ ToNumber(b) = JsNaN THEN JsNaN
    ELSE JsNumber(ToNumber(a).n + ToNumber(b).n)

JsMinus(a, b) ==
    IF ToNumber(a) = JsNaN \/ ToNumber(b) = JsNaN THEN JsNaN
    ELSE JsNumber(ToNumber(a).n - ToNumber(b).n)

\* object.name: undefined when the object has no such property.
GetProp(object, name) ==
    IF name \in DOMAIN object THEN object[name] ELSE JsUndefined

\* What wrangler d1 execute --json prints for SELECT MAX(sort_order) as
\* max_order, as fetchMaxSortOrder reads it: an array with one object
\* whose results are the rows.
MaxOrderJson(table) ==
    << [results |-> << [max_order |->
                          IF table = {} THEN JsNull
                          ELSE JsNumber(MaxOrderOf(table))] >>,
        success |-> [type |-> "boolean"]] >>

\* data && data.length > 0 ? data[0].max_order : 0
ThirdMaxOrder(data) ==
    IF Len(data) > 0 THEN GetProp(data[1], "max_order") ELSE JsNumber(0)

\* videos.map((video, index) => ...): maxOrder + videos.length - index,
\* without a reversal; the id is the video id and platform_id is 'warroom'.
ThirdStatements(list, maxOrder) ==
    [k \in 1..Len(list) |->
        [id          |-> list[k],
         platform_id |-> "warroom",
         sort_order  |-> JsMinus(JsPlus(maxOrder, JsNumber(Len(list))),
                                 JsNumber(k - 1))]]

\* A table with the videos 1..m in sort_order 1..m.
TableOf(m) ==
    {[id |-> MakeId(v), platform_id |-> v, sort_order |-> v,
      publish_date |-> BaseTime(0) - (m - v), run |-> 0] : v \in 1..m}

\* The videos a scrape can return against a table of m videos: newest
\* first, each more recent than the table's.
RECURSIVE Descending(_, _)
Descending(low, high) ==
    IF high < low THEN {<< >>}
    ELSE Descending(low, high - 1)
            \cup {<< high >> \o rest : rest \in Descending(low, high - 1)}

ThirdInit ==
    /\ NoRunYet
    /\ uniqueSortOrder = FALSE
    /\ BatchOff
    /\ EscOff
    /\ ImportOff
    /\ OverlapOff
    /\ SecondOff
    /\ MineOff
    /\ WorkflowOff
    /\ ExtractOff
    /\ \E m \in 0..MaxVid :
          /\ sink = TableOf(m)
          /\ tVideos \in Descending(m + 1, m + PageSize)
    /\ tpc = "start"
    /\ tMaxOrder = JsUndefined
    /\ tStatements = << >>
    /\ tExit = NotExited

\* The early return on an empty array; else the query for the maximum,
\* whose failure is thrown again.
ThirdQueryMax ==
    /\ tpc = "start"
    /\ IF Len(tVideos) = 0
       THEN /\ tpc' = "returned"
            /\ UNCHANGED tMaxOrder
       ELSE \E queryOk \in BOOLEAN :
               IF queryOk
               THEN /\ tMaxOrder' = ThirdMaxOrder(MaxOrderJson(sink))
                    /\ tpc' = "queried"
               ELSE /\ tpc' = "thrown"
                    /\ UNCHANGED tMaxOrder
    /\ UNCHANGED << outsideThird, sink, tVideos, tStatements, tExit >>

\* The statements.
ThirdBuild ==
    /\ tpc = "queried"
    /\ tStatements' = ThirdStatements(tVideos, tMaxOrder)
    /\ tpc' = "built"
    /\ UNCHANGED << outsideThird, sink, tVideos, tMaxOrder, tExit >>

\* writeFileSync and the execution of the file. A statement whose
\* sort_order is not a number is a SQL error; every error is thrown again.
ThirdExecute ==
    /\ tpc = "built"
    /\ \E writeOk \in BOOLEAN, serviceOk \in BOOLEAN :
          LET numeric == \A k \in 1..Len(tStatements) :
                            tStatements[k].sort_order.type = "number"
              fresh == \A k \in 1..Len(tStatements) : \A r \in sink :
                          r.id # tStatements[k].id
          IN  IF writeOk /\ serviceOk /\ numeric /\ fresh
              THEN /\ sink' = sink \cup
                         {[id           |-> tStatements[k].id,
                           platform_id  |-> tStatements[k].platform_id,
                           sort_order   |-> tStatements[k].sort_order.n,
                           publish_date |-> BaseTime(1),
                           run          |-> 1] : k \in 1..Len(tStatements)}
                   /\ tpc' = "returned"
              ELSE /\ tpc' = "thrown"
                   /\ UNCHANGED sink
    /\ UNCHANGED << outsideThird, tVideos, tMaxOrder, tStatements, tExit >>

\* main: the success line after a return, process.exit(1) after a throw.
ThirdExit ==
    /\ tpc \in {"returned", "thrown"}
    /\ tExit' = IF tpc = "returned" THEN 0 ELSE 1
    /\ tpc' = "exited"
    /\ UNCHANGED << outsideThird, sink, tVideos, tMaxOrder, tStatements >>

ThirdNext ==
    \/ ThirdQueryMax
    \/ ThirdBuild
    \/ ThirdExecute
    \/ ThirdExit

SpecThird == ThirdInit /\ [][ThirdNext]_vars

\* ---------------------------------------------------------- mine-videos.js
\* Page p of the listing: the videos after the (p - 1) * PageSize most
\* recent ones, newest first, PageSize at most.
ListingPageOf(count, p) ==
    LET first == count - ((p - 1) * PageSize)
    IN  [i \in 1..Min(PageSize, IF first > 0 THEN first ELSE 0) |->
            first - i + 1]

\* videosOnPage.forEach: push the videos whose link is not yet known.
RECURSIVE PushUnique(_, _)
PushUnique(scraped, page) ==
    IF page = << >> THEN scraped
    ELSE PushUnique(IF \E k \in 1..Len(scraped) : scraped[k] = Head(page)
                    THEN scraped ELSE Append(scraped, Head(page)),
                    Tail(page))

MineInit ==
    /\ PipelineOff
    /\ BatchOff
    /\ EscOff
    /\ ImportOff
    /\ OverlapOff
    /\ SecondOff
    /\ WorkflowOff
    /\ ExtractOff
    /\ ThirdOff
    /\ mpc = "page"
    /\ mPublished \in 0..MaxVideos
    /\ scrapedVideos = << >>
    /\ lastSaveCount = 0
    /\ pageNumber = 1
    /\ jsonFile = << >>

\* The channel publishes a video while the scrape goes from page to page.
MinePublish ==
    /\ mpc = "page"
    /\ mPublished < MaxVideos
    /\ mPublished' = mPublished + 1
    /\ UNCHANGED << outsideMine, mpc, scrapedVideos, lastSaveCount,
                    pageNumber, jsonFile >>

\* One iteration of the while loop. A failed navigation, a timeout of
\* waitForSelector and a page without videos end the loop. Else the unique
\* videos are pushed and, SAVE_INTERVAL videos after the last save,
\* processAndSaveData writes the file (a failed write returns -1 and
\* leaves lastSaveCount as it is).
MineScrapePage ==
    /\ mpc = "page"
    /\ \E navOk \in BOOLEAN, writeOk \in BOOLEAN :
          LET page == ListingPageOf(mPublished, pageNumber)
              all == PushUnique(scrapedVideos, page)
          IN  IF ~navOk \/ page = << >>
              THEN /\ mpc' = "final"
                   /\ UNCHANGED << scrapedVideos, lastSaveCount, pageNumber,
                                   jsonFile >>
              ELSE /\ scrapedVideos' = all
                   /\ pageNumber' = pageNumber + 1
                   /\ IF Len(all) >= lastSaveCount + SAVE_INTERVAL /\ writeOk
                      THEN /\ jsonFile' = ProcessAndSaveData(all)
                           /\ lastSaveCount' = Len(all)
                      ELSE UNCHANGED << jsonFile, lastSaveCount >>
                   /\ UNCHANGED mpc
    /\ UNCHANGED << outsideMine, mPublished >>

\* finally: the final save when videos were scraped after the last save.
MineFinalSave ==
    /\ mpc = "final"
    /\ \E writeOk \in BOOLEAN :
          IF Len(scrapedVideos) > lastSaveCount /\ writeOk
          THEN jsonFile' = ProcessAndSaveData(scrapedVideos)
          ELSE UNCHANGED jsonFile
    /\ mpc' = "done"
    /\ UNCHANGED << outsideMine, mPublished, scrapedVideos, lastSaveCount,
                    pageNumber >>

MineNext ==
    \/ MinePublish
    \/ MineScrapePage
    \/ MineFinalSave

SpecMine == MineInit /\ [][MineNext]_vars

\* ----------------------------------- update-videos.js, the second variant
\* The text 'warroom', as a sequence like every text of a listing item.
Warroom == << "warroom" >>

\* What wrangler d1 execute --json prints for SELECT id ... ORDER BY
\* sort_order DESC LIMIT 1: an array with one object whose results are
\* the rows.
LatestIdJson(table) ==
    << [results |-> IF table = {} THEN << >>
                    ELSE << [id |-> (CHOOSE r \in LatestRows(table) : TRUE).id] >>,
        success |-> [type |-> "boolean"]] >>

\* getLatestVideoId: data[0].id when data is not empty and data[0].id is
\* truthy, else null; null when the command throws.
GetLatestVideoId(data, queryOk) ==
    IF queryOk /\ Len(data) > 0 /\ GetProp(data[1], "id") # JsUndefined
    THEN GetProp(data[1], "id")
    ELSE Absent

\* The for loop of scrapeVideos: the video id is the last segment of the
\* link up to its first dot; the loop breaks at the latest known id; every
\* other item is pushed with platform_id 'warroom'.
RECURSIVE SecondScan(_, _, _, _)
SecondScan(links, latest, i, acc) ==
    IF i > Len(links) THEN acc
    ELSE LET videoId == LastSegmentStem(links[i])
         IN  IF latest # Absent /\ videoId = latest THEN acc
             ELSE SecondScan(links, latest, i + 1,
                             Append(acc, [id          |-> videoId,
                                          link        |-> links[i],
                                          platform_id |-> Warroom]))

\* A table an earlier run of this variant wrote one row to.
SecondTables ==
    {{}, {[id |-> MakeId(Warroom), platform_id |-> Warroom,
           sort_order |-> 1, publish_date |-> BaseTime(0), run |-> 0]}}

SecondInit ==
    /\ NoRunYet
    /\ uniqueSortOrder = FALSE
    /\ sink \in SecondTables
    /\ BatchOff
    /\ EscOff
    /\ ImportOff
    /\ OverlapOff
    /\ WorkflowOff
    /\ ExtractOff
    /\ ThirdOff
    /\ MineOff
    /\ vpc = "start"
    /\ vLinks \in UNION {[1..n -> Hrefs \ {Absent}] : n \in 0..MaxItems}
    /\ latestVideoId = Absent
    /\ vNewVideos = << >>
    /\ vStatements = << >>
    /\ vApply = "none"
    /\ vExit = NotExited

\* scrapeVideos, the call of getLatestVideoId.
SecondGetLatestVideoId ==
    /\ vpc = "start"
    /\ \E queryOk \in BOOLEAN :
          latestVideoId' = GetLatestVideoId(LatestIdJson(sink), queryOk)
    /\ vpc' = "scrape"
    /\ UNCHANGED << outsideSecond, sink, vLinks, vNewVideos, vStatements,
                    vApply, vExit >>

\* scrapeVideos, the page: an error of the browser or of the navigation
\* is thrown again and reaches main.
SecondScrapeVideos ==
    /\ vpc = "scrape"
    /\ \E scrapeOk \in BOOLEAN :
          IF scrapeOk
          THEN /\ vNewVideos' = SecondScan(vLinks, latestVideoId, 1, << >>)
               /\ vpc' = "insert"
          ELSE /\ vpc' = "thrown"
               /\ UNCHANGED vNewVideos
    /\ UNCHANGED << outsideSecond, sink, vLinks, latestVideoId, vStatements,
                    vApply, vExit >>

\* insertNewVideos up to the statements, as in the first variant.
SecondInsertPrepare ==
    /\ vpc = "insert"
    /\ IF Len(vNewVideos) = 0
       THEN /\ vpc' = "returned"
            /\ UNCHANGED << vNewVideos, vStatements >>
       ELSE \E queryOk \in BOOLEAN :
               LET maxOrder == IF queryOk /\ MaxOrderOf(sink) # Null
                               THEN MaxOrderOf(sink) ELSE 0
                   reversed == Reverse(vNewVideos)
               IN  /\ vNewVideos' = reversed
                   /\ vStatements' =
                         BuildStatements(reversed, maxOrder, BaseTime(1))
                   /\ vpc' = "execute"
    /\ UNCHANGED << outsideSecond, sink, vLinks, latestVideoId, vApply,
                    vExit >>

\* insertNewVideos, the try block; the catch logs the error.
SecondInsertExecute ==
    /\ vpc = "execute"
    /\ \E writeOk \in BOOLEAN, stopAt \in 0..Len(vStatements),
          atomic \in BOOLEAN :
          IF ~writeOk
          THEN /\ vApply' = "writeFail"
               /\ UNCHANGED sink
          ELSE LET out == ExecuteFile(sink, vStatements, 1, stopAt,
                                      uniqueSortOrder, 1)
               IN  /\ vApply' = out.result
                   /\ sink' = IF out.result # "ok" /\ atomic THEN sink
                              ELSE out.table
    /\ vpc' = "returned"
    /\ UNCHANGED << outsideSecond, vLinks, latestVideoId, vNewVideos,
                    vStatements, vExit >>

\* main: the success line after a return, process.exit(1) after a throw.
SecondExit ==
    /\ vpc \in {"returned", "thrown"}
    /\ vExit' = IF vpc = "returned" THEN 0 ELSE 1
    /\ vpc' = "exited"
    /\ UNCHANGED << outsideSecond, sink, vLinks, latestVideoId, vNewVideos,
                    vStatements, vApply >>

SecondNext ==
    \/ SecondGetLatestVideoId
    \/ SecondScrapeVideos
    \/ SecondInsertPrepare
    \/ SecondInsertExecute
    \/ SecondExit

SpecSecond == SecondInit /\ [][SecondNext]_vars

\* ------------------------------ two overlapping runs of update-videos.js
\* The two processes.
RunIds == {"a", "b"}

\* The run number written to the rows of each process.
RunNo(p) == IF p = "a" THEN 1 ELSE 2

\* A process before fetchLatestPlatformId.
Started ==
    [pc            |-> "fetchLatest",
     latestKnownId |-> Null,
     latestQuery   |-> "none",
     scrapeOutcome |-> "none",
     videosOnPage  |-> << >>,
     newVideos     |-> << >>,
     maxSortOrder  |-> 0,
     maxQuery      |-> "none",
     sqlStatements |-> << >>,
     applyResult   |-> "none",
     writesBefore  |-> 0]

\* The rows an earlier run has inserted for the videos 1..n, oldest first.
EarlierRows(n) ==
    ExecuteFile({}, BuildStatements([k \in 1..n |-> ExtractVideo(k)], 0,
                                    BaseTime(0)),
                1, 0, FALSE, 0).table

\* The statements with an existence check: those whose id is in no row of
\* the table.
StatementsNotInTable(table, stmts) ==
    SelectSeq(stmts, LAMBDA s : \A r \in table : r.id # s.id)

\* The content of new_videos.sql: sqlStatements.join, every statement,
\* whatever the table holds.
FileStatements(table, stmts) == stmts

\* Two processes have started; the table holds the rows of earlier runs
\* for the oldest videos of the channel.
OverlapInit ==
    /\ BatchOff
    /\ EscOff
    /\ ImportOff
    /\ SecondOff
    /\ MineOff
    /\ ThirdOff
    /\ ExtractOff
    /\ WorkflowOff
    /\ published \in 1..MaxVid
    /\ malformed = {}
    /\ tempFile = FALSE
    /\ pc = "idle"
    /\ run = 0
    /\ latestKnownId = Null
    /\ scrapeOutcome = "none"
    /\ videosOnPage = << >>
    /\ newVideos = << >>
    /\ warned = FALSE
    /\ maxSortOrder = 0
    /\ sqlStatements = << >>
    /\ applyResult = "none"
    /\ exitCode = NotExited
    /\ successLogged = FALSE
    /\ latestQuery = "none"
    /\ maxQuery = "none"
    /\ steps = << >>
    /\ sinkAtStart = {}
    /\ prevRun = NoRun
    /\ sink \in {EarlierRows(n) : n \in 0..published}
    /\ uniqueSortOrder \in BOOLEAN
    /\ procs = [p \in RunIds |-> Started]
    /\ writes = 0

\* The channel publishes one more video while the processes run.
OverlapPublish ==
    /\ published < MaxVid
    /\ published' = published + 1
    /\ UNCHANGED << outsideOverlap, malformed, sink, uniqueSortOrder,
                    overlapVars >>

\* fetchLatestPlatformId of process p.
OverlapFetchLatestPlatformId(p) ==
    /\ procs[p].pc = "fetchLatest"
    /\ \E queryOk \in BOOLEAN :
          \E latest \in IF queryOk /\ sink # {}
                        THEN {r.platform_id : r \in LatestRows(sink)}
                        ELSE {Null} :
              procs' = [procs EXCEPT
                           ![p].latestKnownId = latest,
                           ![p].latestQuery =
                               IF queryOk THEN "ok" ELSE "failed",
                           ![p].pc = "scrape"]
    /\ UNCHANGED << outsideOverlap, sourceVars, sink, uniqueSortOrder,
                    writes >>

\* scrapeLatestVideos of process p.
OverlapScrapeLatestVideos(p) ==
    /\ procs[p].pc = "scrape"
    /\ \E outcome \in {"ok", "navFail", "launchFail"} :
          LET page == ExtractVideos(ListingPage)
              found == ScanPage(page, procs[p].latestKnownId, 1, << >>)
          IN  procs' = [procs EXCEPT
                           ![p].scrapeOutcome = outcome,
                           ![p].videosOnPage =
                               IF outcome = "ok" THEN page ELSE << >>,
                           ![p].newVideos =
                               IF outcome = "ok" THEN found ELSE << >>,
                           ![p].pc = IF outcome = "launchFail" THEN "done"
                                     ELSE "insert"]
    /\ UNCHANGED << outsideOverlap, sourceVars, sink, uniqueSortOrder,
                    writes >>

\* insertNewVideos of process p up to the statements.
OverlapInsertPrepare(p) ==
    /\ procs[p].pc = "insert"
    /\ IF Len(procs[p].newVideos) = 0
       THEN procs' = [procs EXCEPT ![p].pc = "done"]
       ELSE \E queryOk \in BOOLEAN :
               LET maxOrder == IF queryOk /\ MaxOrderOf(sink) # Null
                               THEN MaxOrderOf(sink) ELSE 0
                   reversed == Reverse(procs[p].newVideos)
               IN  procs' = [procs EXCEPT
                                ![p].maxSortOrder = maxOrder,
                                ![p].maxQuery =
                                    IF queryOk THEN "ok" ELSE "failed",
                                ![p].newVideos = reversed,
                                ![p].sqlStatements =
                                    BuildStatements(reversed, maxOrder,
                                                    BaseTime(RunNo(p))),
                                ![p].writesBefore = writes,
                                ![p].pc = "execute"]
    /\ UNCHANGED << outsideOverlap, sourceVars, sink, uniqueSortOrder,
                    writes >>

\* insertNewVideos of process p, the try block: no lock is taken and the
\* file holds every statement.
OverlapInsertExecute(p) ==
    /\ procs[p].pc = "execute"
    /\ \E writeOk \in BOOLEAN, stopAt \in 0..Len(procs[p].sqlStatements),
          atomic \in BOOLEAN :
          IF ~writeOk
          THEN /\ procs' = [procs EXCEPT ![p].applyResult = "writeFail",
                                         ![p].pc = "done"]
               /\ UNCHANGED << sink, writes >>
          ELSE LET out == ExecuteFile(sink,
                                      FileStatements(sink,
                                          procs[p].sqlStatements),
                                      1, stopAt, uniqueSortOrder, RunNo(p))
               IN  /\ procs' = [procs EXCEPT ![p].applyResult = out.result,
                                              ![p].pc = "done"]
                   /\ sink' = IF out.result # "ok" /\ atomic THEN sink
                              ELSE out.table
                   /\ writes' = writes + 1
    /\ UNCHANGED << outsideOverlap, sourceVars, uniqueSortOrder >>

OverlapNext ==
    \/ OverlapPublish
    \/ \E p \in RunIds : OverlapFetchLatestPlatformId(p)
    \/ \E p \in RunIds : OverlapScrapeLatestVideos(p)
    \/ \E p \in RunIds : OverlapInsertPrepare(p)
    \/ \E p \in RunIds : OverlapInsertExecute(p)

SpecOverlap == OverlapInit /\ [][OverlapNext]_vars

\* ----------------------------------------------------------- the workflow
\* The refs a run can be on: the default branch and another one.
DefaultRef == "refs/heads/main"
Refs == {DefaultRef, "refs/heads/dev"}

\* on: schedule runs on the default branch; workflow_dispatch runs on the
\* ref the user selects.
Triggers ==
    {[event |-> "schedule", ref |-> DefaultRef]}
        \cup {[event |-> "workflow_dispatch", ref |-> ref] : ref \in Refs}

WorkflowName == "Scrape Latest Rumble Videos"

\* concurrency.group: ${{ github.workflow }}-${{ github.ref }}
ConcurrencyGroup(ref) == << WorkflowName, ref >>

\* A trigger fires. cancel-in-progress: true cancels the run in progress
\* of the same concurrency group; the new run starts.
TriggerRun ==
    /\ wfCount < MaxTriggers
    /\ \E t \in Triggers :
          LET Same(r) == /\ r.state = "in_progress"
                         /\ ConcurrencyGroup(r.ref) = ConcurrencyGroup(t.ref)
          IN  wfRuns' =
                 {IF Same(r) THEN [r EXCEPT !.state = "cancelled"] ELSE r :
                     r \in wfRuns}
                 \cup {[id |-> wfCount + 1, ref |-> t.ref, event |-> t.event,
                        state |-> "in_progress"]}
    /\ wfCount' = wfCount + 1
    /\ UNCHANGED outsideWorkflow

\* A run ends: node update-videos.js has exited, or timeout-minutes passed.
CompleteRun ==
    /\ \E r \in wfRuns :
          /\ r.state = "in_progress"
          /\ wfRuns' = (wfRuns \ {r}) \cup {[r EXCEPT !.state = "completed"]}
    /\ UNCHANGED << outsideWorkflow, wfCount >>

WorkflowInit ==
    /\ PipelineOff
    /\ BatchOff
    /\ EscOff
    /\ ImportOff
    /\ OverlapOff
    /\ SecondOff
    /\ MineOff
    /\ ThirdOff
    /\ ExtractOff
    /\ wfRuns = {}
    /\ wfCount = 0

WorkflowNext ==
    \/ TriggerRun
    \/ CompleteRun

SpecWorkflow == WorkflowInit /\ [][WorkflowNext]_vars

\* -------------------------------------------------------- escapeSqlString
Quote == "'"

Alphabet == {Quote, "a", ";"}

Strings == UNION {[1..n -> Alphabet] : n \in 0..MaxStrLen}

\* The arguments: null, undefined, and strings.
Values ==
    {[kind |-> k, chars |-> << >>] : k \in {"null", "undefined"}}
        \cup {[kind |-> "string", chars |-> c] : c \in Strings}

\* replace without the g flag: only the first quote is doubled.
ReplaceFirstQuote(chars) ==
    IF \E k \in 1..Len(chars) : chars[k] = Quote
    THEN LET first == CHOOSE k \in 1..Len(chars) :
                         /\ chars[k] = Quote
                         /\ \A j \in 1..(k - 1) : chars[j] # Quote
         IN  SubSeq(chars, 1, first) \o << Quote >>
                \o SubSeq(chars, first + 1, Len(chars))
    ELSE chars

\* String(value).replace(/'/g, "''")
RECURSIVE ReplaceQuotes(_)
ReplaceQuotes(chars) ==
    IF chars = << >> THEN << >>
    ELSE (IF Head(chars) = Quote THEN << Quote, Quote >> ELSE << Head(chars) >>)
            \o ReplaceQuotes(Tail(chars))

NullMarker == << "N", "U", "L", "L" >>

EscapeSqlString(v) ==
    IF v.kind \in {"null", "undefined"} THEN NullMarker
    ELSE << Quote >> \o ReplaceQuotes(v.chars) \o << Quote >>

\* What follows a value in the VALUES list of the INSERT.
Suffix == << ",", " " >>

\* The SQL rule for a string literal, from the character after the opening
\* quote: two quotes are one quote of the string, one quote ends it.
RECURSIVE ReadLiteral(_, _)
ReadLiteral(text, acc) ==
    IF text = << >>
    THEN [kind |-> "unterminated", chars |-> acc, rest |-> << >>]
    ELSE IF Head(text) # Quote THEN ReadLiteral(Tail(text), Append(acc, Head(text)))
    ELSE IF Len(text) >= 2 /\ text[2] = Quote
         THEN ReadLiteral(Tail(Tail(text)), Append(acc, Quote))
    ELSE [kind |-> "string", chars |-> acc, rest |-> Tail(text)]

\* A SQL parser reading one value at the head of a text.
ReadValue(text) ==
    IF text # << >> /\ Head(text) = Quote THEN ReadLiteral(Tail(text), << >>)
    ELSE IF Len(text) >= 4 /\ SubSeq(text, 1, 4) = NullMarker
         THEN [kind |-> "null", chars |-> << >>,
               rest |-> SubSeq(text, 5, Len(text))]
    ELSE [kind |-> "error", chars |-> << >>, rest |-> text]

EscInit ==
    /\ PipelineOff
    /\ BatchOff
    /\ ImportOff
    /\ OverlapOff
    /\ SecondOff
    /\ MineOff
    /\ ThirdOff
    /\ ExtractOff
    /\ WorkflowOff
    /\ epc = "input"
    /\ value \in Values
    /\ literal = << >>
    /\ parsed = [kind |-> "none", chars |-> << >>, rest |-> << >>]

\* The call escapeSqlString(value).
Escape ==
    /\ epc = "input"
    /\ literal' = EscapeSqlString(value)
    /\ epc' = "escaped"
    /\ UNCHANGED << outsideEsc, value, parsed >>

\* The sink parses the statement the text was put in.
Parse ==
    /\ epc = "escaped"
    /\ parsed' = ReadValue(literal \o Suffix)
    /\ epc' = "parsed"
    /\ UNCHANGED << outsideEsc, value, literal >>

EscNext ==
    \/ Escape
    \/ Parse

SpecEsc == EscInit /\ [][EscNext]_vars

\* ================================================================== claims
\* The platform_ids of a sequence of videos or statements.
PlatformIds(s) == [i \in 1..Len(s) |-> s[i].platform_id]

\* The first position of the page that holds the latest known video, 0 if
\* there is none.
BoundaryIndex ==
    IF \E i \in 1..Len(videosOnPage) :
          videosOnPage[i].platform_id = latestKnownId
    THEN CHOOSE i \in 1..Len(videosOnPage) :
            /\ videosOnPage[i].platform_id = latestKnownId
            /\ \A j \in 1..(i - 1) :
                  videosOnPage[j].platform_id # latestKnownId
    ELSE 0

\* scrapeLatestVideos has returned normally in the current run.
Scraped == pc \in {"insert", "execute", "finish", "done"} /\ scrapeOutcome = "ok"

C2_SecondRunInsertsNothing ==
    ( /\ pc = "done"
      /\ prevRun.outcome = "ok"
      /\ prevRun.apply \in {"none", "ok", "rejected"}
      /\ scrapeOutcome = "ok"
      /\ videosOnPage = prevRun.page )
    => ( /\ sink = sinkAtStart
         /\ \A a, b \in sink : a.id = b.id => a = b )

\* C3: when the latest known video is on the page, the new videos are the
\* items strictly before its first occurrence, and insertNewVideos
\* processes them in reversed order, oldest first.
C3_BoundaryDiff ==
    (Scraped /\ BoundaryIndex > 0) =>
        LET ahead == SubSeq(videosOnPage, 1, BoundaryIndex - 1)
            n == Len(ahead)
            oldestFirst == [i \in 1..n |-> ahead[n - i + 1].platform_id]
        IN  /\ pc = "insert" => newVideos = ahead
            /\ pc = "execute" => /\ PlatformIds(newVideos) = oldestFirst
                                 /\ PlatformIds(sqlStatements) = oldestFirst

\* C3, the case [v4,v3,v2] with boundary v2: the statements are for v3, v4.
C3_Witness ==
    /\ pc = "execute"
    /\ scrapeOutcome = "ok"
    /\ BoundaryIndex = 3
    /\ PlatformIds(sqlStatements) =
          << videosOnPage[2].platform_id, videosOnPage[1].platform_id >>

\* C4: when a boundary is set and no item of a non-empty page matches it,
\* what scrapeLatestVideos returns differs from what it returns for the
\* same page without a boundary.
C4_AmbiguousBoundaryObservable ==
    ( /\ pc = "insert"
      /\ scrapeOutcome = "ok"
      /\ latestKnownId # Null
      /\ videosOnPage # << >>
      /\ BoundaryIndex = 0 )
    => ( /\ newVideos # ScanPage(videosOnPage, Null, 1, << >>)
         /\ newVideos # << >> )

\* C5: without a boundary every scanned item is new and the warning is not
\* printed.
C5_NoBoundaryAllNew ==
    (Scraped /\ latestKnownId = Null) =>
        /\ ~warned
        /\ pc = "insert" => newVideos = videosOnPage

\* C5, the case: no boundary although the sink has rows, two items scanned.
C5_Witness ==
    /\ pc = "insert"
    /\ scrapeOutcome = "ok"
    /\ latestKnownId = Null
    /\ sink # {}
    /\ Len(videosOnPage) >= 2
    /\ newVideos = videosOnPage

\* C6: when no valid item was extracted from the page the result is empty
\* and the warning is not printed, with or without a boundary.
C6_EmptyPageNoSignal ==
    (Scraped /\ videosOnPage = << >>) =>
        /\ newVideos = << >>
        /\ ~warned

\* The batch files in number order, concatenated.
RECURSIVE Concatenated(_)
Concatenated(n) ==
    IF n = 0 THEN << >> ELSE Concatenated(n - 1) \o disk[n]

\* C7: when generateImportSqlBatches has finished and every file was
\* written, the files are numbered 1..m without a gap, each holds at most
\* BATCH_SIZE statements and each but the last exactly BATCH_SIZE, and
\* their concatenation is one INSERT per record, in the order of the input.
C7_BatchPartition ==
    (gpc = "finished" /\ ~writeFailed) =>
        LET m == fileCounter - 1
        IN  /\ DOMAIN disk = 1..m
            /\ executionCommands = [k \in 1..m |-> k]
            /\ \A k \in 1..m : Len(disk[k]) >= 1 /\ Len(disk[k]) <= BATCH_SIZE
            /\ \A k \in 1..(m - 1) : Len(disk[k]) = BATCH_SIZE
            /\ Concatenated(m) =
                  [k \in 1..Len(videos) |->
                      [id           |-> videos[k].id,
                       platform_id  |-> videos[k].platform_id,
                       sort_order   |-> videos[k].sort_order,
                       publish_date |-> videos[k].publish_date]]

\* C7, the case of 1001 records and batches of 500: two full files and a
\* last one with a single statement.
C7_Witness ==
    /\ gpc = "finished"
    /\ ~writeFailed
    /\ Len(videos) = 2 * BATCH_SIZE + 1
    /\ DOMAIN disk = 1..3
    /\ Len(disk[1]) = BATCH_SIZE
    /\ Len(disk[2]) = BATCH_SIZE
    /\ Len(disk[3]) = 1

\* The characters of a string with every quote written twice.
Doubled(chars) ==
    LET Cell(c) == IF c = Quote THEN << Quote, Quote >> ELSE << c >>
        RECURSIVE Join(_)
        Join(k) == IF k = 0 THEN << >> ELSE Join(k - 1) \o Cell(chars[k])
    IN  Join(Len(chars))

\* C8: escapeSqlString gives NULL for null and undefined; for a string it
\* gives the string with every quote doubled between two quotes, and a SQL
\* parser reads back from the statement exactly the string and stops
\* exactly where the rest of the statement begins.
C8_EscapeRoundTrip ==
    /\ epc \in {"escaped", "parsed"} =>
          IF value.kind = "string"
          THEN literal = << Quote >> \o Doubled(value.chars) \o << Quote >>
          ELSE literal = NullMarker
    /\ epc = "parsed" =>
          IF value.kind = "string"
          THEN /\ parsed.kind = "string"
               /\ parsed.chars = value.chars
               /\ parsed.rest = Suffix
          ELSE /\ parsed.kind = "null"
               /\ parsed.rest = Suffix

\* C8, the case: a string with a quote at its start, inside and at its end.
C8_Witness ==
    /\ epc = "parsed"
    /\ value.kind = "string"
    /\ Len(value.chars) >= 3
    /\ value.chars[1] = Quote
    /\ value.chars[2] = Quote
    /\ value.chars[Len(value.chars)] = Quote
    /\ parsed.chars = value.chars

\* C9: a run whose execution of new_videos.sql failed ends with a non-zero
\* exit status and without the success line.
C9_WriteFailureIsFatal ==
    (pc = "done" /\ applyResult \in {"rejected", "transient"}) =>
        /\ exitCode # 0
        /\ ~successLogged

\* C10: a run whose page.goto or waitForSelector threw writes nothing to
\* the sink and ends with a non-zero exit status.
C10_SourceUnavailableIsFatal ==
    (pc = "done" /\ scrapeOutcome = "navFail") =>
        /\ applyResult = "none"
        /\ sink = sinkAtStart
        /\ exitCode # 0

\* C11: the resolver never ends the run. Once the query for the latest id
\* has answered, the boundary is null when the table was empty or the query
\* failed, and otherwise the platform_id of a row of maximal sort_order;
\* once the query for the maximum has answered, maxSortOrder is 0 when the
\* table was empty or the query failed, and otherwise the largest
\* sort_order of the table. The run goes on to the scrape and to the
\* statements.
C11_ResolverFailsOpen ==
    /\ latestQuery # "none" =>
          /\ pc = "failed" => scrapeOutcome = "launchFail"
          /\ scrapeOutcome = "none" => pc = "scrape"
          /\ IF latestQuery = "ok" /\ sinkAtStart # {}
             THEN \E r \in sinkAtStart :
                     /\ latestKnownId = r.platform_id
                     /\ \A q \in sinkAtStart : q.sort_order <= r.sort_order
             ELSE latestKnownId = Null
    /\ maxQuery # "none" =>
          /\ pc \in {"execute", "finish", "done", "idle"}
          /\ IF maxQuery = "ok" /\ sinkAtStart # {}
             THEN /\ \E r \in sinkAtStart : maxSortOrder = r.sort_order
                  /\ \A q \in sinkAtStart : q.sort_order <= maxSortOrder
             ELSE maxSortOrder = 0

\* C11, the case: on a table with rows the first query answers and the
\* second fails, and the statements are built from 0.
C11_Witness ==
    /\ pc = "execute"
    /\ sinkAtStart # {}
    /\ latestQuery = "ok"
    /\ latestKnownId # Null
    /\ maxQuery = "failed"
    /\ maxSortOrder = 0
    /\ sqlStatements # << >>

\* C12: run-imports.sh executes the files one at a time in ascending
\* number order: the files executed with success are 1, 2, ... without a
\* gap. When the execution of file k fails the script has ended with a
\* non-zero status, no file after k was executed, and the rows of the
\* files before k are in the sink. The script ends with status 0 only when
\* every file was executed with success.
C12_ImportsInOrderStopOnFailure ==
    ipc # "off" =>
        LET done == Len(importApplied)
        IN  /\ importApplied = [k \in 1..done |-> k]
            /\ done <= Cardinality(DOMAIN disk)
            /\ \A k \in 1..done : \A j \in 1..Len(disk[k]) :
                  \E r \in sink : r.id = disk[k][j].id
            /\ importFailed # 0 =>
                  /\ importFailed = done + 1
                  /\ ipc = "exited"
                  /\ shExit \notin {0, NotExited}
            /\ shExit = 0 =>
                  /\ importFailed = 0
                  /\ ipc = "exited"
                  /\ done = Cardinality(DOMAIN disk)
            /\ ipc = "exited" => shExit # NotExited

\* C12, the case: of three files the first is executed, the second fails,
\* the third is left alone.
C12_Witness ==
    /\ ipc = "exited"
    /\ Cardinality(DOMAIN disk) = 3
    /\ importApplied = << 1 >>
    /\ importFailed = 2
    /\ shExit = 1
    /\ \A j \in 1..Len(disk[3]) : \A r \in sink : r.id # disk[3][j].id

\* C13: at any time at most one run of the workflow is in progress,
\* whatever the events and the refs of the runs triggered.
C13_AtMostOneRunActive ==
    Cardinality({r \in wfRuns : r.state = "in_progress"}) <= 1

\* Within one concurrency group at most one run is in progress.
OneRunPerGroup ==
    \A a, b \in wfRuns :
        ( /\ a.state = "in_progress"
          /\ b.state = "in_progress"
          /\ ConcurrencyGroup(a.ref) = ConcurrencyGroup(b.ref) ) => a = b

\* The items of the page that have a title, a link and a platform_id the
\* given extraction finds, as [title, link] in page order.
CompleteItems(PlatformIdOf(_)) ==
    LET Complete(item) == /\ Truthy(item.alt)
                          /\ Truthy(item.href)
                          /\ Truthy(PlatformIdOf(item.href))
        kept == SelectSeq(rawItems, Complete)
    IN  [i \in 1..Len(kept) |-> [title |-> kept[i].alt, link |-> kept[i].href]]

TitlesAndLinks(s) ==
    [i \in 1..Len(s) |-> [title |-> s[i].title, link |-> s[i].link]]

\* The callback of update-videos.js keeps exactly the items with a title, a
\* link and a platform_id, in page order.
UpdateDropsMalformedItems ==
    xpc \in {"updated", "mined"} =>
        /\ TitlesAndLinks(extracted) = CompleteItems(UpdatePlatformId)
        /\ \A i \in 1..Len(extracted) :
              /\ Truthy(extracted[i].title)
              /\ Truthy(extracted[i].link)
              /\ Truthy(extracted[i].platform_id)

\* C14: in both scrapers the items handed on are exactly the items of the
\* page that have a title, a link and an extractable platform_id, in page
\* order, each with its title, link and platform_id; the other items are
\* dropped.
C14_MalformedItemsDropped ==
    /\ UpdateDropsMalformedItems
    /\ xpc = "mined" =>
          /\ TitlesAndLinks(mined) = CompleteItems(MinePlatformId)
          /\ \A i \in 1..Len(mined) :
                /\ Truthy(mined[i].title)
                /\ Truthy(mined[i].link)
                /\ Truthy(mined[i].platform_id)

\* The first variant: statement i (0-based) of the reversed list has
\* sort_order maxSortOrder + i + 1, and the list is oldest first.
FirstVariantSortOrders ==
    pc = "execute" =>
        /\ \A k \in 1..Len(sqlStatements) :
              sqlStatements[k].sort_order = maxSortOrder + (k - 1) + 1
        /\ \A j, k \in 1..Len(sqlStatements) :
              j < k => sqlStatements[j].platform_id
                          < sqlStatements[k].platform_id

\* C15: insertNewVideos gives the i-th (0-based) video of the oldest-first
\* list the sort_order maxSortOrder + i + 1, where maxSortOrder is the
\* largest sort_order of the table (0 for an empty table): n new videos get
\* maxSortOrder + 1 .. maxSortOrder + n and the newest gets the largest.
\* Stated for the first variant and for the third, whose list is newest
\* first.
C15_ContiguousSortOrders ==
    /\ FirstVariantSortOrders
    /\ tpc = "built" =>
          LET n == Len(tStatements)
              base == IF sink = {} THEN 0 ELSE MaxOrderOf(sink)
          IN  \A i \in 0..(n - 1) :
                 tStatements[n - i].sort_order = JsNumber(base + i + 1)

\* C16: publish_date grows strictly with sort_order. Among the statements
\* of one run (oldest first) each video has a later timestamp than the one
\* before it and the newest has the base time of the run; and at any time,
\* of two rows of the sink the one with the smaller sort_order has the
\* earlier publish_date.
C16_PublishDateFollowsSortOrder ==
    /\ pc = "execute" =>
          LET n == Len(sqlStatements)
          IN  /\ n > 0 => sqlStatements[n].publish_date = BaseTime(run)
              /\ \A j, k \in 1..n :
                    j < k => sqlStatements[j].publish_date
                                < sqlStatements[k].publish_date
    /\ \A a, b \in sink :
          a.sort_order < b.sort_order => a.publish_date < b.publish_date

\* C17: in the corpus mine-videos.js writes, sort_order grows strictly
\* with recency: of two records the more recent video has the larger
\* sort_order, so the newest video has the largest.
C17_BulkSortOrderFollowsRecency ==
    \A j, k \in 1..Len(jsonFile) :
        jsonFile[j].platform_id < jsonFile[k].platform_id
            => jsonFile[j].sort_order < jsonFile[k].sort_order

C19_OverFetchIsSafe ==
    ( /\ pc = "done"
      /\ latestQuery = "failed"
      /\ maxQuery = "ok"
      /\ sinkAtStart # {}
      /\ scrapeOutcome = "ok"
      /\ applyResult \in {"ok", "rejected"} )
    => ( /\ \A a, b \in sink : a.id = b.id => a = b
         /\ sinkAtStart \subseteq sink
         /\ \A i \in 1..Len(videosOnPage) :
               \E r \in sink : r.id = MakeId(videosOnPage[i].platform_id) )

\* Over-fetching leaves the existing rows alone: whatever a run does, no
\* two rows share an id and the rows the sink held at the start stay.
OverFetchKeepsExistingRows ==
    /\ \A a, b \in sink : a.id = b.id => a = b
    /\ sinkAtStart \subseteq sink

\* Every a among the steps of the current run comes before every b.
Before(a, b) ==
    \A i, j \in 1..Len(steps) : (steps[i] = a /\ steps[j] = b) => i < j

Happened(a) == \E i \in 1..Len(steps) : steps[i] = a

C21_IdIsRumblePlatformId ==
    /\ pc = "execute" =>
          \A k \in 1..Len(sqlStatements) :
              sqlStatements[k].id = MakeId(newVideos[k].platform_id)
    /\ \A k \in 1..Len(jsonFile) : jsonFile[k].id = MakeId(scrapedVideos[k])
    /\ vpc = "execute" =>
          /\ \A k \in 1..Len(vStatements) :
                vStatements[k].id = MakeId(LastSegmentStem(vNewVideos[k].link))
          /\ \A j, k \in 1..Len(vStatements) :
                LastSegmentStem(vNewVideos[j].link)
                      # LastSegmentStem(vNewVideos[k].link)
                   => vStatements[j].id # vStatements[k].id

\* The first variant and mine-videos.js write "rumble:" and the platform_id
\* of the video.
FirstVariantAndBulkIds ==
    /\ pc = "execute" =>
          \A k \in 1..Len(sqlStatements) :
              sqlStatements[k].id = MakeId(newVideos[k].platform_id)
    /\ \A k \in 1..Len(jsonFile) : jsonFile[k].id = MakeId(scrapedVideos[k])

\* C22: a failed write of a batch file is fatal for the run of
\* generateImportSqlBatches: once a write has failed no further batch file
\* is written and the run does not reach "Finished generating SQL batch
\* files.".
C22_WriteFailureIsFatal ==
    [][writeFailed => (disk' = disk /\ gpc' # "finished")]_vars

\* C26: whatever writes fail, every batch file on disk holds at most
\* BATCH_SIZE statements and no INSERT statement is in two files or twice
\* in one file.
C26_WrittenFilesBoundedAndDisjoint ==
    /\ \A f \in DOMAIN disk : Len(disk[f]) <= BATCH_SIZE
    /\ \A f, g \in DOMAIN disk :
          \A j \in 1..Len(disk[f]) : \A k \in 1..Len(disk[g]) :
              disk[f][j] = disk[g][k] => (f = g /\ j = k)

\* The second half of C26 alone: no statement is written twice.
NoStatementWrittenTwice ==
    \A f, g \in DOMAIN disk :
        \A j \in 1..Len(disk[f]) : \A k \in 1..Len(disk[g]) :
            disk[f][j] = disk[g][k] => (f = g /\ j = k)

\* C23: every save of processAndSaveData gives the video at position k
\* (counted from 1) sort_order k and the fixed anchor less k - 1 seconds,
\* whatever the time of the run, and a save after further videos were
\* appended leaves every record already in the file as it was.
C23_SavesDependOnPositionOnly ==
    [][/\ \A k \in 1..Len(jsonFile') :
             /\ jsonFile'[k].platform_id = scrapedVideos'[k]
             /\ jsonFile'[k].sort_order = k
             /\ jsonFile'[k].publish_date = FixedBaseTime - (k - 1)
       /\ \A k \in 1..Len(jsonFile) :
             /\ k <= Len(jsonFile')
             /\ jsonFile'[k] = jsonFile[k]]_vars

\* C23, its case: the file was saved, further videos were appended, and
\* the file was saved again with more records.
C23_Witness ==
    /\ lastSaveCount > 0
    /\ Len(jsonFile) > lastSaveCount
    /\ mpc = "done"

\* C25: after the bulk import of a newest-first corpus, the first update
\* run over a page whose items are all in the corpus resolves the newest
\* video of the corpus as its boundary and finds no new video.
C25_FirstRunAfterImportInsertsNothing ==
    (/\ run = 1
     /\ pc = "insert"
     /\ latestQuery = "ok"
     /\ scrapeOutcome = "ok"
     /\ ~writeFailed
     /\ {r.platform_id : r \in sinkAtStart} =
           {videos[k].platform_id : k \in 1..Len(videos)}
     /\ \A k \in 1..Len(videosOnPage) :
           \E j \in 1..Len(videos) :
               videosOnPage[k].platform_id = videos[j].platform_id)
        => /\ latestKnownId = videos[1].platform_id
           /\ newVideos = << >>

\* The files run-imports.sh has handed to wrangler: those that were
\* applied and the one that failed.
FilesExecuted ==
    {importApplied[k] : k \in 1..Len(importApplied)}
        \cup ({importFailed} \ {0})

\* C27: every file run-imports.sh hands to wrangler was written by the most
\* recent run of generateImportSqlBatches: each of its statements is the
\* INSERT of a record of that run's input.
C27_OnlyLatestGenerationApplied ==
    \A f \in FilesExecuted :
        \A j \in 1..Len(disk[f]) :
            \E k \in 1..Len(videos) : disk[f][j] = InsertStatement(videos[k])

\* Processes p and q have both resolved the latest platform_id and the
\* maximal sort_order before any file was executed, and have built their
\* statements from the same listing page.
ResolvedBeforeAnyWrite(p, q) ==
    /\ procs[p].pc \in {"execute", "done"}
    /\ procs[q].pc \in {"execute", "done"}
    /\ procs[p].sqlStatements # << >>
    /\ procs[q].sqlStatements # << >>
    /\ procs[p].writesBefore = 0
    /\ procs[q].writesBefore = 0
    /\ procs[p].latestQuery = "ok"
    /\ procs[q].latestQuery = "ok"
    /\ procs[p].maxQuery = "ok"
    /\ procs[q].maxQuery = "ok"
    /\ procs[p].videosOnPage = procs[q].videosOnPage

\* The id and the sort_order of each statement of process p, in file order.
IdsAndSortOrders(p) ==
    [k \in 1..Len(procs[p].sqlStatements) |->
        << procs[p].sqlStatements[k].id,
           procs[p].sqlStatements[k].sort_order >>]

\* C24: two runs that both resolve the latest platform_id and the maximal
\* sort_order before either executes its file build INSERTs for the same
\* ids with the same sort_order values; no lock and no existence check
\* keeps the second file from the sink, where the primary key rejects it:
\* the two files are never both applied and no id is in two rows.
C24_DuplicateWriteStoppedByPrimaryKeyOnly ==
    /\ \A p, q \in DOMAIN procs :
          (p # q /\ ResolvedBeforeAnyWrite(p, q)) =>
              /\ procs[p].latestKnownId = procs[q].latestKnownId
              /\ procs[p].maxSortOrder = procs[q].maxSortOrder
              /\ IdsAndSortOrders(p) = IdsAndSortOrders(q)
              /\ procs[p].applyResult = "ok" =>
                    procs[q].applyResult
                        \in {"none", "rejected", "transient", "writeFail"}
              /\ (procs[p].applyResult = "ok" /\ writes = 2) =>
                    procs[q].applyResult \in {"rejected", "transient"}
    /\ \A r, t \in sink : r.id = t.id => r = t

\* C24, its case: both processes resolved before either wrote, the first
\* file was applied and the second, with the same ids, was rejected.
C24_Witness ==
    \E p, q \in DOMAIN procs :
        /\ p # q
        /\ ResolvedBeforeAnyWrite(p, q)
        /\ Len(procs[p].sqlStatements) > 1
        /\ procs[p].applyResult = "ok"
        /\ procs[q].applyResult = "rejected"
        /\ writes = 2

====
